---- MODULE Spec2Model ----
(***************************************************************************)
(* Operator tracking backend (server.js) over its PostgreSQL schema.       *)
(*                                                                         *)
(* The store is the set of tables of the schema with their constraints;    *)
(* every HTTP handler of server.js is an action, or, when it awaits more   *)
(* than one statement, one action per awaited statement, so that handlers  *)
(* of concurrent requests interleave between statements as they do on the  *)
(* event loop.                                                             *)
(*                                                                         *)
(* Representation.  Text is a sequence of one-character strings, so that   *)
(* trim() and ILIKE are computed.  SQL NULL and a JavaScript undefined are *)
(* NULL for numbers (ids, dates, times) and NoStr for text.  A date is a   *)
(* day number, a time of day is minutes after midnight, a timestamp is     *)
(* minutes after the start of day 0 (UTC), total_hours is in hundredths.   *)
(***************************************************************************)
EXTENDS Integers, Sequences, FiniteSets, TLC

VARIABLES
    operators,              \* table operators
    operators_seq,          \* last value of operators_id_seq
    shifts,                 \* table shifts
    shifts_seq,
    shift_assignments,      \* table shift_assignments
    shift_assignments_seq,
    attendance_logs,        \* table attendance_logs
    attendance_logs_seq,
    now,                    \* wall clock, minutes UTC
    tzOffset,               \* the server's local time zone, minutes east of UTC
    req,                    \* per handler slot: the request being served
    response,               \* the last response sent, with what was logged
    lastImport              \* history: the last finished import and the operators it left

vars == << operators, operators_seq, shifts, shifts_seq, shift_assignments,
           shift_assignments_seq, attendance_logs, attendance_logs_seq,
           now, tzOffset, req, response, lastImport >>

-----------------------------------------------------------------------------
(* Bounds *)

\* concurrent request handlers
MaxReq == 2
\* values the SERIAL sequences of attendance_logs, shift_assignments and shifts
\* may hand out
MaxSeq == 3
\* rows of an uploaded CSV file
MaxRows == 3
\* values operators_id_seq may hand out: two imports of a full file and two more
MaxOperatorsSeq == 2 * MaxRows + 2

-----------------------------------------------------------------------------
(* Values *)

NULL == -1
NoStr == << "NULL" >>

Truthy(s) == s # NoStr /\ s # << >>
TruthyNum(n) == n # NULL /\ n # 0

IsSpace(c) == c = " "

RECURSIVE TrimStart(_)
TrimStart(s) == IF s # << >> /\ IsSpace(Head(s)) THEN TrimStart(Tail(s)) ELSE s

RECURSIVE TrimEnd(_)
TrimEnd(s) ==
    IF s # << >> /\ IsSpace(s[Len(s)]) THEN TrimEnd(SubSeq(s, 1, Len(s) - 1)) ELSE s

\* String.prototype.trim
Trim(s) == TrimEnd(TrimStart(s))

\* value?.trim()
OptTrim(s) == IF s = NoStr THEN NoStr ELSE Trim(s)

Uppers == << "A", "B", "C", "D", "E", "F", "G", "H", "I", "J", "K", "L", "M",
             "N", "O", "P", "Q", "R", "S", "T", "U", "V", "W", "X", "Y", "Z" >>
Lowers == << "a", "b", "c", "d", "e", "f", "g", "h", "i", "j", "k", "l", "m",
             "n", "o", "p", "q", "r", "s", "t", "u", "v", "w", "x", "y", "z" >>

LowerChar(c) ==
    IF \E i \in DOMAIN Uppers : Uppers[i] = c
    THEN Lowers[CHOOSE i \in DOMAIN Uppers : Uppers[i] = c]
    ELSE c

Lower(s) == [i \in DOMAIN s |-> LowerChar(s[i])]

\* text LIKE pattern: % is any run of characters, _ is any one character
RECURSIVE Like(_, _)
Like(s, p) ==
    IF p = << >> THEN s = << >>
    ELSE IF Head(p) = "%"
         THEN Like(s, Tail(p)) \/ (s # << >> /\ Like(Tail(s), p))
    ELSE s # << >> /\ (Head(p) = "_" \/ Head(p) = Head(s)) /\ Like(Tail(s), Tail(p))

\* text ILIKE pattern
ILike(s, p) == Like(Lower(s), Lower(p))

s_beginner == << "b", "e", "g", "i", "n", "n", "e", "r" >>

\* SQLSTATE of a statement's outcome
PgOk == "00000"
UniqueViolation == "23505"
FkViolation == "23503"

-----------------------------------------------------------------------------
(* Time *)

MinutesPerDay == 24 * 60

\* new Date().toISOString().split('T')[0]
UtcDate(t) == t \div MinutesPerDay

\* new Date().toLocaleTimeString('en-US', {hour12: false, hour, minute}):
\* the local time of day, cut to the minute
LocalTime(t, tz) == (t + tz) % MinutesPerDay

\* the instants at which requests arrive: 20:50 and 22:10 UTC of day 0 and
\* 10:00 UTC of day 1
Instants == << 1250, 1330, 2040 >>

\* the time zones the server may run in: UTC and UTC+3
TzOffsets == { 0, 180 }

\* Math.round(x) for x = n / d, d > 0: the nearest integer, halves up
RoundDiv(n, d) == (2 * n + d) \div (2 * d)

\* Math.round((clockOutTime - clockInTime) / (1000 * 60 * 60) * 100) / 100,
\* both times of day on the same date; the result in hundredths of an hour
TotalHours(clockIn, clockOut) == RoundDiv((clockOut - clockIn) * 100, 60)

-----------------------------------------------------------------------------
(* Schema: seeded and administered tables *)

s_Production == << "P", "r", "o", "d", "u", "c", "t", "i", "o", "n" >>
s_QualityControl ==
    << "Q", "u", "a", "l", "i", "t", "y", " ", "C", "o", "n", "t", "r", "o", "l" >>
s_Maintenance == << "M", "a", "i", "n", "t", "e", "n", "a", "n", "c", "e" >>
s_Logistics == << "L", "o", "g", "i", "s", "t", "i", "c", "s" >>

\* INSERT INTO departments ... : no handler writes this table
departments ==
    { [id |-> 1, name |-> s_Production],
      [id |-> 2, name |-> s_QualityControl],
      [id |-> 3, name |-> s_Maintenance],
      [id |-> 4, name |-> s_Logistics] }

DepartmentIds == { d.id : d \in departments }

\* rows of table production_lines: no handler writes this table, and status
\* is 'active' by default
production_lines ==
    { [id |-> 1, status |-> "active"], [id |-> 2, status |-> "active"] }

\* rows of table stations (no handler inserts or deletes one): two stations of
\* the first line, one of the second
stations ==
    { [id |-> 1, line_id |-> 1], [id |-> 2, line_id |-> 1],
      [id |-> 11, line_id |-> 2] }

StationIds == { s.id : s \in stations }

-----------------------------------------------------------------------------
(* The store: one operator per SQL statement of server.js, computed under  *)
(* the constraints of the schema.  Each returns the SQLSTATE, the table    *)
(* after the statement and the rows it returns.  A unique index is checked *)
(* when the row is written, a foreign key at the end of the statement.     *)

Outcome(state, table, rows) == [sqlstate |-> state, table |-> table, rows |-> rows]

\* operators.email UNIQUE, operators.employee_id UNIQUE (NULLs are distinct)
OperatorsUniqueNoEmail(table, row) ==
    \A o \in table : o.id # row.id =>
        (row.employee_id = NoStr \/ o.employee_id # row.employee_id)
OperatorsUnique(table, row) ==
    \A o \in table : o.id # row.id =>
        /\ o.email # row.email
        /\ (row.employee_id = NoStr \/ o.employee_id # row.employee_id)

\* operators.department_id REFERENCES departments(id)
OperatorsFk(row) == row.department_id = NULL \/ row.department_id \in DepartmentIds

\* INSERT INTO operators (name, email, employee_id, department_id, skill_level)
\* VALUES (...) RETURNING *
InsertOperator(table, id, v, t) ==
    LET row == [id |-> id, name |-> v.name, email |-> v.email,
                employee_id |-> v.employee_id, department_id |-> v.department_id,
                skill_level |-> v.skill_level, status |-> "offline", last_active |-> t]
    IN  IF ~OperatorsUnique(table, row) THEN Outcome(UniqueViolation, table, << >>)
        ELSE IF ~OperatorsFk(row) THEN Outcome(FkViolation, table, << >>)
        ELSE Outcome(PgOk, table \cup {row}, << row >>)

\* INSERT INTO operators ... ON CONFLICT (email) DO UPDATE SET name = EXCLUDED.name,
\* employee_id = EXCLUDED.employee_id, department_id = EXCLUDED.department_id,
\* skill_level = EXCLUDED.skill_level
UpsertOperatorAlwaysInsert(table, id, v, t) ==
    LET row == [id |-> id, name |-> v.name, email |-> v.email,
                employee_id |-> v.employee_id, department_id |-> v.department_id,
                skill_level |-> v.skill_level, status |-> "offline", last_active |-> t]
    IN  IF ~OperatorsUniqueNoEmail(table, row) THEN Outcome(UniqueViolation, table, << >>)
        ELSE Outcome(PgOk, table \cup {row}, << row >>)
UpsertOperatorTouches(table, id, v, t) ==
    IF \E o \in table : o.email = v.email
    THEN LET old == CHOOSE o \in table : o.email = v.email
             row == [old EXCEPT !.name = v.name, !.employee_id = v.employee_id,
                                !.department_id = v.department_id,
                                !.skill_level = v.skill_level, !.last_active = t]
         IN  IF ~OperatorsUnique(table, row) THEN Outcome(UniqueViolation, table, << >>)
             ELSE IF ~OperatorsFk(row) THEN Outcome(FkViolation, table, << >>)
             ELSE Outcome(PgOk, (table \ {old}) \cup {row}, << row >>)
    ELSE InsertOperator(table, id, v, t)
UpsertOperator(table, id, v, t) ==
    IF \E o \in table : o.email = v.email
    THEN LET old == CHOOSE o \in table : o.email = v.email
             row == [old EXCEPT !.name = v.name, !.employee_id = v.employee_id,
                                !.department_id = v.department_id,
                                !.skill_level = v.skill_level]
         IN  IF ~OperatorsUnique(table, row) THEN Outcome(UniqueViolation, table, << >>)
             ELSE IF ~OperatorsFk(row) THEN Outcome(FkViolation, table, << >>)
             ELSE Outcome(PgOk, (table \ {old}) \cup {row}, << row >>)
    ELSE InsertOperator(table, id, v, t)

\* COALESCE($n, column)
CoalesceStr(new, old) == IF new = NoStr THEN old ELSE new
CoalesceNum(new, old) == IF new = NULL THEN old ELSE new

\* UPDATE operators SET name = COALESCE($1, name), ..., last_active = CURRENT_TIMESTAMP
\* WHERE id = $7 RETURNING *
UpdateOperator(table, id, v, t) ==
    IF ~\E o \in table : o.id = id THEN Outcome(PgOk, table, << >>)
    ELSE LET old == CHOOSE o \in table : o.id = id
             row == [id |-> id,
                     name |-> CoalesceStr(v.name, old.name),
                     email |-> CoalesceStr(v.email, old.email),
                     employee_id |-> CoalesceStr(v.employee_id, old.employee_id),
                     department_id |-> CoalesceNum(v.department_id, old.department_id),
                     skill_level |-> CoalesceStr(v.skill_level, old.skill_level),
                     status |-> IF v.status = "" THEN old.status ELSE v.status,
                     last_active |-> t]
         IN  IF ~OperatorsUnique(table, row) THEN Outcome(UniqueViolation, table, << >>)
             ELSE IF ~OperatorsFk(row) THEN Outcome(FkViolation, table, << >>)
             ELSE Outcome(PgOk, (table \ {old}) \cup {row}, << row >>)

\* UPDATE operators SET status = $1, last_active = CURRENT_TIMESTAMP WHERE id = $2
SetOperatorStatusKeepsLastActive(table, id, status, t) ==
    { IF o.id = id THEN [o EXCEPT !.status = status] ELSE o : o \in table }
SetOperatorStatusOfAll(table, id, status, t) ==
    { [o EXCEPT !.status = status, !.last_active = t] : o \in table }
SetOperatorStatus(table, id, status, t) ==
    { IF o.id = id THEN [o EXCEPT !.status = status, !.last_active = t] ELSE o
      : o \in table }

\* attendance_logs.operator_id REFERENCES operators(id): no ON DELETE action, so
\* a referenced operator cannot be deleted
AttendanceRestricts(logs, id) == \E a \in logs : a.operator_id = id

\* shift_assignments.operator_id REFERENCES operators(id) ON DELETE CASCADE
AssignmentsCascade(assignments, id) == { a \in assignments : a.operator_id # id }

\* shift_assignments: UNIQUE(shift_id, operator_id, assigned_date)
SameAssignmentKeyNoDate(a, shift_id, operator_id, assigned_date) ==
    a.shift_id = shift_id /\ a.operator_id = operator_id
SameAssignmentKey(a, shift_id, operator_id, assigned_date) ==
    a.shift_id = shift_id /\ a.operator_id = operator_id
        /\ a.assigned_date = assigned_date

\* shift_assignments: the three REFERENCES
AssignmentFk(row, ops, shs) ==
    /\ \E s \in shs : s.id = row.shift_id
    /\ \E o \in ops : o.id = row.operator_id
    /\ (row.station_id = NULL \/ row.station_id \in StationIds)

\* INSERT INTO shift_assignments (shift_id, operator_id, station_id, assigned_date)
\* VALUES ($1, $2, $3, $4) ON CONFLICT (shift_id, operator_id, assigned_date)
\* DO UPDATE SET station_id = $3 RETURNING *
UpsertAssignmentWithinCapacity(table, id, v, ops, shs) ==
    LET hit == { a \in table :
                   SameAssignmentKey(a, v.shift_id, v.operator_id, v.assigned_date) }
        row == IF hit # {}
               THEN [(CHOOSE a \in hit : TRUE) EXCEPT !.station_id = v.station_id]
               ELSE [id |-> id, shift_id |-> v.shift_id, operator_id |-> v.operator_id,
                     assigned_date |-> v.assigned_date, station_id |-> v.station_id]
        assigned == { a \in table : a.shift_id = v.shift_id
                                      /\ a.assigned_date = v.assigned_date }
    IN  IF ~AssignmentFk(row, ops, shs) THEN Outcome(FkViolation, table, << >>)
        ELSE IF hit = {} /\ \E s \in shs : s.id = v.shift_id
                                            /\ Cardinality(assigned) >= s.capacity
        THEN Outcome(UniqueViolation, table, << >>)
        ELSE Outcome(PgOk, (table \ hit) \cup {row}, << row >>)
UpsertAssignmentStationFree(table, id, v, ops, shs) ==
    LET hit == { a \in table :
                   SameAssignmentKey(a, v.shift_id, v.operator_id, v.assigned_date) }
        row == IF hit # {}
               THEN [(CHOOSE a \in hit : TRUE) EXCEPT !.station_id = v.station_id]
               ELSE [id |-> id, shift_id |-> v.shift_id, operator_id |-> v.operator_id,
                     assigned_date |-> v.assigned_date, station_id |-> v.station_id]
    IN  IF ~AssignmentFk(row, ops, shs) THEN Outcome(FkViolation, table, << >>)
        ELSE IF \E a \in table \ hit :
                  /\ a.station_id # NULL /\ a.station_id = row.station_id
                  /\ a.assigned_date = row.assigned_date
        THEN Outcome(UniqueViolation, table, << >>)
        ELSE Outcome(PgOk, (table \ hit) \cup {row}, << row >>)
UpsertAssignment(table, id, v, ops, shs) ==
    LET hit == { a \in table :
                   SameAssignmentKey(a, v.shift_id, v.operator_id, v.assigned_date) }
        row == IF hit # {}
               THEN [(CHOOSE a \in hit : TRUE) EXCEPT !.station_id = v.station_id]
               ELSE [id |-> id, shift_id |-> v.shift_id, operator_id |-> v.operator_id,
                     assigned_date |-> v.assigned_date, station_id |-> v.station_id]
    IN  IF ~AssignmentFk(row, ops, shs) THEN Outcome(FkViolation, table, << >>)
        ELSE Outcome(PgOk, (table \ hit) \cup {row}, << row >>)

\* attendance_logs: UNIQUE(operator_id, date); NULLs are distinct
AttendanceUniqueOff(table, row) == TRUE
AttendanceUnique(table, row) ==
    \A a \in table : a.id # row.id =>
        ~(row.operator_id # NULL /\ a.operator_id = row.operator_id
            /\ a.date = row.date)

\* attendance_logs: operator_id REFERENCES operators(id), shift_id REFERENCES shifts(id)
AttendanceFk(row, ops, shs) ==
    /\ (row.operator_id = NULL \/ \E o \in ops : o.id = row.operator_id)
    /\ (row.shift_id = NULL \/ \E s \in shs : s.id = row.shift_id)

\* SELECT * FROM attendance_logs WHERE operator_id = $1 AND date = $2
SelectAttendance(table, operator_id, date) ==
    IF \E a \in table : a.operator_id = operator_id /\ a.date = date
       /\ operator_id # NULL
    THEN << CHOOSE a \in table : a.operator_id = operator_id /\ a.date = date >>
    ELSE << >>

\* SELECT ... WHERE operator_id = $1 AND date = $2
\*   AND clock_in IS NOT NULL AND clock_out IS NULL
SelectActiveAnyClockOut(table, operator_id, date) ==
    LET found == SelectAttendance(table, operator_id, date)
    IN  IF found # << >> /\ found[1].clock_in # NULL THEN found ELSE << >>
SelectActive(table, operator_id, date) ==
    LET found == SelectAttendance(table, operator_id, date)
    IN  IF found # << >> /\ found[1].clock_in # NULL /\ found[1].clock_out = NULL
        THEN found ELSE << >>

\* INSERT INTO attendance_logs (operator_id, date, clock_in, status, shift_id)
\* VALUES ($1, $2, $3, 'present', $4) RETURNING *
InsertAttendance(table, id, v, ops, shs) ==
    LET row == [id |-> id, operator_id |-> v.operator_id, date |-> v.date,
                clock_in |-> v.clock_in, clock_out |-> NULL, total_hours |-> 0,
                status |-> v.status, shift_id |-> v.shift_id]
    IN  IF ~AttendanceUnique(table, row) THEN Outcome(UniqueViolation, table, << >>)
        ELSE IF ~AttendanceFk(row, ops, shs) THEN Outcome(FkViolation, table, << >>)
        ELSE Outcome(PgOk, table \cup {row}, << row >>)

\* UPDATE attendance_logs SET clock_in = $1, status = 'present', shift_id = $2
\* WHERE operator_id = $3 AND date = $4 RETURNING *
UpdateClockInKeepsShift(table, clock_in, shift_id, operator_id, date, shs) ==
    LET hit == SelectAttendance(table, operator_id, date)
    IN  IF hit = << >> THEN Outcome(PgOk, table, << >>)
        ELSE LET row == [hit[1] EXCEPT !.clock_in = clock_in, !.status = "present"]
             IN  Outcome(PgOk, (table \ {hit[1]}) \cup {row}, << row >>)
UpdateClockIn(table, clock_in, shift_id, operator_id, date, shs) ==
    LET hit == SelectAttendance(table, operator_id, date)
    IN  IF hit = << >> THEN Outcome(PgOk, table, << >>)
        ELSE LET row == [hit[1] EXCEPT !.clock_in = clock_in, !.status = "present",
                                        !.shift_id = shift_id]
             IN  IF ~(shift_id = NULL \/ \E s \in shs : s.id = shift_id)
                 THEN Outcome(FkViolation, table, << >>)
                 ELSE Outcome(PgOk, (table \ {hit[1]}) \cup {row}, << row >>)

\* UPDATE attendance_logs SET clock_out = $1, total_hours = $2
\* WHERE operator_id = $3 AND date = $4 RETURNING *
UpdateClockOut(table, clock_out, total_hours, operator_id, date) ==
    LET hit == SelectAttendance(table, operator_id, date)
    IN  IF hit = << >> THEN Outcome(PgOk, table, << >>)
        ELSE LET row == [hit[1] EXCEPT !.clock_out = clock_out,
                                        !.total_hours = total_hours]
             IN  Outcome(PgOk, (table \ {hit[1]}) \cup {row}, << row >>)

\* SELECT id FROM departments WHERE name ILIKE $1: the ids of the rows found
SelectDepartment(pattern) ==
    { d.id : d \in { e \in departments : ILike(e.name, pattern) } }

-----------------------------------------------------------------------------
(* Requests and responses *)

Reqs == 1 .. MaxReq

Idle == [kind |-> "idle", pc |-> "", operator_id |-> NULL, shift_id |-> NULL,
         today |-> NULL, currentTime |-> NULL, existing |-> << >>,
         result |-> << >>, totalHours |-> 0, file |-> << >>, idx |-> 0,
         imported |-> 0, errors |-> << >>, startOps |-> {}]

\* res.status(code).json(...), with the SQLSTATE of the error the handler caught.
\* operator_id is history: the operator an attendance request named
Respond(route, code, error, sqlstate, rows) ==
    [route |-> route, code |-> code, error |-> error, sqlstate |-> sqlstate,
     rows |-> rows, operator_id |-> NULL]

About(r, operator_id) == [r EXCEPT !.operator_id = operator_id]

NoResponse == Respond("", 0, "", "", << >>)

\* the generic catch of every handler
InternalError(route, sqlstate) ==
    Respond(route, 500, "Internal server error", sqlstate, << >>)

NoImport == [file |-> << >>, startOps |-> {}, endOps |-> {}, imported |-> 0,
             errors |-> << >>]

StoreUnchanged ==
    UNCHANGED << operators, operators_seq, shifts, shifts_seq, shift_assignments,
                 shift_assignments_seq, attendance_logs, attendance_logs_seq >>

Init ==
    /\ operators = {}
    /\ operators_seq = 0
    /\ shifts = {}
    /\ shifts_seq = 0
    /\ shift_assignments = {}
    /\ shift_assignments_seq = 0
    /\ attendance_logs = {}
    /\ attendance_logs_seq = 0
    /\ now = Instants[1]
    /\ tzOffset \in TzOffsets
    /\ req = [s \in Reqs |-> Idle]
    /\ response = NoResponse
    /\ lastImport = NoImport

-----------------------------------------------------------------------------
(* Operators *)

\* catch of POST /api/operators
CreateOperatorCatch(sqlstate) ==
    IF sqlstate = UniqueViolation
    THEN Respond("POST /api/operators", 400, "Email or employee ID already exists",
                 sqlstate, << >>)
    ELSE InternalError("POST /api/operators", sqlstate)

\* POST /api/operators
CreateOperator(b) ==
    /\ IF ~Truthy(b.name) \/ ~Truthy(b.email) \/ ~TruthyNum(b.department_id)
       THEN /\ response' = Respond("POST /api/operators", 400,
                                   "Name, email, and department are required", "", << >>)
            /\ UNCHANGED << operators, operators_seq >>
       ELSE /\ operators_seq < MaxSeq
            /\ LET v == [b EXCEPT !.skill_level = IF Truthy(@) THEN @ ELSE s_beginner]
                   r == InsertOperator(operators, operators_seq + 1, v, now)
               IN  /\ operators' = r.table
                   /\ operators_seq' = operators_seq + 1
                   /\ response' = IF r.sqlstate = PgOk
                                  THEN Respond("POST /api/operators", 201, "", "", r.rows)
                                  ELSE CreateOperatorCatch(r.sqlstate)
    /\ UNCHANGED << shifts, shifts_seq, shift_assignments, shift_assignments_seq,
                    attendance_logs, attendance_logs_seq, now, tzOffset, req, lastImport >>

\* PUT /api/operators/:id
PutOperator(id, b) ==
    /\ LET r == UpdateOperator(operators, id, b, now)
       IN  /\ operators' = r.table
           /\ response' = IF r.sqlstate # PgOk
                          THEN InternalError("PUT /api/operators/:id", r.sqlstate)
                          ELSE IF r.rows = << >>
                          THEN Respond("PUT /api/operators/:id", 404,
                                       "Operator not found", "", << >>)
                          ELSE Respond("PUT /api/operators/:id", 200, "", "", r.rows)
    /\ UNCHANGED << operators_seq, shifts, shifts_seq, shift_assignments,
                    shift_assignments_seq, attendance_logs, attendance_logs_seq,
                    now, tzOffset, req, lastImport >>

\* const validStatuses = ['online', 'offline', 'on_break']
ValidStatuses == { "online", "offline", "on_break" }

\* POST /api/operators/:id/status; a body without status carries ""
UpdateStatus(id, status) ==
    /\ IF status \notin ValidStatuses
       THEN /\ response' = Respond("POST /api/operators/:id/status", 400,
                                   "Invalid status", "", << >>)
            /\ operators' = operators
       ELSE IF ~\E o \in operators : o.id = id
       THEN /\ response' = Respond("POST /api/operators/:id/status", 404,
                                   "Operator not found", "", << >>)
            /\ operators' = operators
       ELSE /\ operators' = SetOperatorStatus(operators, id, status, now)
            /\ response' = Respond("POST /api/operators/:id/status", 200, "", "",
                                   << CHOOSE o \in operators' : o.id = id >>)
    /\ UNCHANGED << operators_seq, shifts, shifts_seq, shift_assignments,
                    shift_assignments_seq, attendance_logs, attendance_logs_seq,
                    now, tzOffset, req, lastImport >>

\* DELETE FROM operators WHERE id = $1 RETURNING *, with the references to
\* operators(id) of shift_assignments and attendance_logs
DeleteOperatorRow(ops, assignments, logs, id) ==
    LET hit == { o \in ops : o.id = id }
    IN  IF hit = {} THEN [sqlstate |-> PgOk, operators |-> ops,
                          shift_assignments |-> assignments, rows |-> << >>]
        ELSE IF AttendanceRestricts(logs, id)
        THEN [sqlstate |-> FkViolation, operators |-> ops,
              shift_assignments |-> assignments, rows |-> << >>]
        ELSE [sqlstate |-> PgOk, operators |-> ops \ hit,
              shift_assignments |-> AssignmentsCascade(assignments, id),
              rows |-> << CHOOSE o \in hit : TRUE >>]

\* DELETE /api/operators/:id
DeleteOperator(id) ==
    /\ LET r == DeleteOperatorRow(operators, shift_assignments, attendance_logs, id)
       IN  /\ operators' = r.operators
           /\ shift_assignments' = r.shift_assignments
           /\ response' = IF r.sqlstate # PgOk
                          THEN InternalError("DELETE /api/operators/:id", r.sqlstate)
                          ELSE IF r.rows = << >>
                          THEN Respond("DELETE /api/operators/:id", 404,
                                       "Operator not found", "", << >>)
                          ELSE Respond("DELETE /api/operators/:id", 200, "", "", r.rows)
    /\ UNCHANGED << operators_seq, shifts, shifts_seq, shift_assignments_seq,
                    attendance_logs, attendance_logs_seq, now, tzOffset, req, lastImport >>

-----------------------------------------------------------------------------
(* Shifts and shift assignments *)

\* POST /api/shifts
CreateShift(b) ==
    /\ IF ~Truthy(b.name) \/ b.start_time = NULL \/ b.end_time = NULL
          \/ ~TruthyNum(b.department_id) \/ ~TruthyNum(b.capacity)
       THEN /\ response' = Respond("POST /api/shifts", 400, "All fields are required",
                                   "", << >>)
            /\ UNCHANGED << shifts, shifts_seq >>
       ELSE /\ shifts_seq < MaxSeq
            /\ shifts_seq' = shifts_seq + 1
            /\ LET row == [id |-> shifts_seq + 1, name |-> b.name,
                           start_time |-> b.start_time, end_time |-> b.end_time,
                           department_id |-> b.department_id, capacity |-> b.capacity,
                           is_active |-> TRUE]
               IN  IF b.department_id \in DepartmentIds
                   THEN /\ shifts' = shifts \cup {row}
                        /\ response' = Respond("POST /api/shifts", 201, "", "", << row >>)
                   ELSE /\ shifts' = shifts
                        /\ response' = InternalError("POST /api/shifts", FkViolation)
    /\ UNCHANGED << operators, operators_seq, shift_assignments, shift_assignments_seq,
                    attendance_logs, attendance_logs_seq, now, tzOffset, req, lastImport >>

\* POST /api/shift-assignments
AssignOperator(b) ==
    /\ IF ~TruthyNum(b.shift_id) \/ ~TruthyNum(b.operator_id)
       THEN /\ response' = Respond("POST /api/shift-assignments", 400,
                                   "Shift ID and Operator ID are required", "", << >>)
            /\ UNCHANGED << shift_assignments, shift_assignments_seq >>
       ELSE /\ shift_assignments_seq < MaxSeq
            /\ LET v == [b EXCEPT !.assigned_date =
                                     IF @ = NULL THEN UtcDate(now) ELSE @]
                   r == UpsertAssignment(shift_assignments, shift_assignments_seq + 1,
                                         v, operators, shifts)
               IN  /\ shift_assignments' = r.table
                   /\ shift_assignments_seq' = shift_assignments_seq + 1
                   /\ response' =
                        IF r.sqlstate = PgOk
                        THEN Respond("POST /api/shift-assignments", 201, "", "", r.rows)
                        ELSE InternalError("POST /api/shift-assignments", r.sqlstate)
    /\ UNCHANGED << operators, operators_seq, shifts, shifts_seq, attendance_logs,
                    attendance_logs_seq, now, tzOffset, req, lastImport >>

\* DELETE /api/shift-assignments/:id
RemoveAssignmentUpTo(id) ==
    /\ LET hit == { a \in shift_assignments : a.id <= id }
       IN  /\ shift_assignments' = shift_assignments \ hit
           /\ response' = IF hit = {}
                          THEN Respond("DELETE /api/shift-assignments/:id", 404,
                                       "Assignment not found", "", << >>)
                          ELSE Respond("DELETE /api/shift-assignments/:id", 200, "", "",
                                       << CHOOSE a \in hit : \A c \in hit : c.id <= a.id >>)
    /\ UNCHANGED << operators, operators_seq, shifts, shifts_seq, shift_assignments_seq,
                    attendance_logs, attendance_logs_seq, now, tzOffset, req, lastImport >>
RemoveAssignment(id) ==
    /\ LET hit == { a \in shift_assignments : a.id = id }
       IN  /\ shift_assignments' = shift_assignments \ hit
           /\ response' = IF hit = {}
                          THEN Respond("DELETE /api/shift-assignments/:id", 404,
                                       "Assignment not found", "", << >>)
                          ELSE Respond("DELETE /api/shift-assignments/:id", 200, "", "",
                                       << CHOOSE a \in hit : TRUE >>)
    /\ UNCHANGED << operators, operators_seq, shifts, shifts_seq, shift_assignments_seq,
                    attendance_logs, attendance_logs_seq, now, tzOffset, req, lastImport >>

-----------------------------------------------------------------------------
(* Listings *)

\* FROM operators o LEFT JOIN shift_assignments sa
\*   ON o.id = sa.operator_id AND sa.assigned_date = CURRENT_DATE:
\* an operator with each of its assignments of the date, or with none, as
\* << o, sa.station_id, sa.id >>, NULL where nothing is joined
OperatorsJoin(ops, assignments, date) ==
    LET Of(o) == { a \in assignments : a.operator_id = o.id
                                         /\ a.assigned_date = date }
    IN  UNION { IF Of(o) = {} THEN { << o, NULL, NULL >> }
                ELSE { << o, a.station_id, a.id >> : a \in Of(o) } : o \in ops }

\* SELECT o.*, sa.station_id: the columns of a joined row (the names joined in
\* from departments, stations and production_lines follow from these)
ListedRow(j) == [operator |-> j[1], station_id |-> j[2]]

\* result.rows, where rows may repeat: each row with the number of times the
\* result has it (the order of the rows is not kept)
RowCounts(joined) ==
    [r \in { ListedRow(j) : j \in joined } |->
       Cardinality({ j \in joined : ListedRow(j) = r })]

\* GET /api/operators
ListOperators ==
    /\ response' = Respond("GET /api/operators", 200, "", "",
                           RowCounts(OperatorsJoin(operators, shift_assignments,
                                                   UtcDate(now))))
    /\ StoreUnchanged
    /\ UNCHANGED << now, tzOffset, req, lastImport >>

\* FROM production_lines pl LEFT JOIN stations s ON pl.id = s.line_id
\*   LEFT JOIN shift_assignments sa ON s.id = sa.station_id AND sa.assigned_date = $1
\* for one line: << station id, assignment id >>, NULL where nothing is joined
LineJoin(pl, assignments, date) ==
    LET ofLine == { s \in stations : s.line_id = pl.id }
        On(s) == { a \in assignments : a.station_id = s.id /\ a.assigned_date = date }
    IN  IF ofLine = {} THEN { << NULL, NULL >> }
        ELSE UNION { IF On(s) = {} THEN { << s.id, NULL >> }
                     ELSE { << s.id, a.id >> : a \in On(s) } : s \in ofLine }

\* SELECT pl.id, COUNT(s.id) as total_stations, COUNT(sa.id) as occupied_stations
\* ... WHERE pl.status = 'active' GROUP BY pl.id, pl.name
LineStats(assignments, date) ==
    { [id |-> pl.id,
       total_stations |->
         Cardinality({ j \in LineJoin(pl, assignments, date) : j[1] # NULL }),
       occupied_stations |->
         Cardinality({ j \in LineJoin(pl, assignments, date) : j[2] # NULL })]
      : pl \in { l \in production_lines : l.status = "active" } }

\* GET /api/dashboard/stats: the production_lines of the answer
DashboardStats ==
    /\ response' = Respond("GET /api/dashboard/stats", 200, "", "",
                           LineStats(shift_assignments, UtcDate(now)))
    /\ StoreUnchanged
    /\ UNCHANGED << now, tzOffset, req, lastImport >>

-----------------------------------------------------------------------------
(* Attendance *)

\* existing.rows.length > 0 && existing.rows[0].clock_in
AlreadyClockedInWhileOpen(existing) ==
    existing # << >> /\ existing[1].clock_in # NULL /\ existing[1].clock_out = NULL
AlreadyClockedIn(existing) == existing # << >> /\ existing[1].clock_in # NULL

\* catch of POST /api/attendance/clock-in
ClockInCatch(sqlstate) == InternalError("POST /api/attendance/clock-in", sqlstate)

\* POST /api/attendance/clock-in, to the answer of the SELECT
ClockInSelect(s, operator_id, shift_id) ==
    /\ req[s].kind = "idle"
    /\ LET today == UtcDate(now)
           currentTime == LocalTime(now, tzOffset)
           existing == SelectAttendance(attendance_logs, operator_id, today)
       IN  IF AlreadyClockedIn(existing)
           THEN /\ response' = About(Respond("POST /api/attendance/clock-in", 400,
                                             "Already clocked in today", "", << >>),
                                     operator_id)
                /\ req' = req
           ELSE /\ req' = [req EXCEPT ![s] =
                             [Idle EXCEPT !.kind = "clock-in", !.pc = "write",
                                          !.operator_id = operator_id,
                                          !.shift_id = shift_id, !.today = today,
                                          !.currentTime = currentTime,
                                          !.existing = existing]]
                /\ response' = NoResponse
    /\ StoreUnchanged
    /\ UNCHANGED << now, tzOffset, lastImport >>

\* the UPDATE or the INSERT of clock-in
ClockInWrite(s) ==
    /\ req[s].kind = "clock-in" /\ req[s].pc = "write"
    /\ req[s].existing = << >> => attendance_logs_seq < MaxSeq
    /\ LET q == req[s]
           r == IF q.existing # << >>
                THEN UpdateClockIn(attendance_logs, q.currentTime, q.shift_id,
                                   q.operator_id, q.today, shifts)
                ELSE InsertAttendance(attendance_logs, attendance_logs_seq + 1,
                                      [operator_id |-> q.operator_id, date |-> q.today,
                                       clock_in |-> q.currentTime, status |-> "present",
                                       shift_id |-> q.shift_id],
                                      operators, shifts)
       IN  /\ attendance_logs' = r.table
           /\ attendance_logs_seq' = IF q.existing # << >> THEN attendance_logs_seq
                                     ELSE attendance_logs_seq + 1
           /\ IF r.sqlstate = PgOk
              THEN /\ req' = [req EXCEPT ![s].pc = "status", ![s].result = r.rows]
                   /\ response' = NoResponse
              ELSE /\ req' = [req EXCEPT ![s] = Idle]
                   /\ response' = About(ClockInCatch(r.sqlstate), q.operator_id)
    /\ UNCHANGED << operators, operators_seq, shifts, shifts_seq, shift_assignments,
                    shift_assignments_seq, now, tzOffset, lastImport >>

\* the UPDATE of operators of clock-in, and the response
ClockInStatus(s) ==
    /\ req[s].kind = "clock-in" /\ req[s].pc = "status"
    /\ operators' = SetOperatorStatus(operators, req[s].operator_id, "online", now)
    /\ response' = About(Respond("POST /api/attendance/clock-in", 200, "", "",
                                 req[s].result), req[s].operator_id)
    /\ req' = [req EXCEPT ![s] = Idle]
    /\ UNCHANGED << operators_seq, shifts, shifts_seq, shift_assignments,
                    shift_assignments_seq, attendance_logs, attendance_logs_seq,
                    now, tzOffset, lastImport >>

\* POST /api/attendance/clock-out, to the answer of the SELECT
ClockOutSelect(s, operator_id) ==
    /\ req[s].kind = "idle"
    /\ LET today == UtcDate(now)
           currentTime == LocalTime(now, tzOffset)
           existing == SelectActive(attendance_logs, operator_id, today)
       IN  IF existing = << >>
           THEN /\ response' = About(Respond("POST /api/attendance/clock-out", 400,
                                             "No active clock-in found for today", "",
                                             << >>), operator_id)
                /\ req' = req
           ELSE /\ req' = [req EXCEPT ![s] =
                             [Idle EXCEPT !.kind = "clock-out", !.pc = "write",
                                          !.operator_id = operator_id,
                                          !.today = today, !.currentTime = currentTime,
                                          !.existing = existing]]
                /\ response' = NoResponse
    /\ StoreUnchanged
    /\ UNCHANGED << now, tzOffset, lastImport >>

\* the UPDATE of attendance_logs of clock-out
ClockOutWrite(s) ==
    /\ req[s].kind = "clock-out" /\ req[s].pc = "write"
    /\ LET q == req[s]
           totalHours == TotalHours(q.existing[1].clock_in, q.currentTime)
           r == UpdateClockOut(attendance_logs, q.currentTime, totalHours,
                               q.operator_id, q.today)
       IN  /\ attendance_logs' = r.table
           /\ req' = [req EXCEPT ![s].pc = "status", ![s].result = r.rows,
                                 ![s].totalHours = totalHours]
    /\ UNCHANGED << operators, operators_seq, shifts, shifts_seq, shift_assignments,
                    shift_assignments_seq, attendance_logs_seq, now, tzOffset,
                    lastImport >>
    /\ response' = NoResponse

\* the UPDATE of operators of clock-out, and the response
ClockOutStatus(s) ==
    /\ req[s].kind = "clock-out" /\ req[s].pc = "status"
    /\ operators' = SetOperatorStatus(operators, req[s].operator_id, "offline", now)
    /\ response' = About(Respond("POST /api/attendance/clock-out", 200, "", "",
                                 req[s].result), req[s].operator_id)
    /\ req' = [req EXCEPT ![s] = Idle]
    /\ UNCHANGED << operators_seq, shifts, shifts_seq, shift_assignments,
                    shift_assignments_seq, attendance_logs, attendance_logs_seq,
                    now, tzOffset, lastImport >>

\* SQLSTATE of a statement that failed because the connection to the store
\* was lost
ConnectionFailure == "08006"

\* the UPDATE of operators of clock-in throws: the catch answers 500, and no
\* statement of the handler undoes the write of attendance_logs
ClockInStatusFailsRollsBack(s) ==
    /\ req[s].kind = "clock-in" /\ req[s].pc = "status"
    /\ attendance_logs' =
         (attendance_logs \ { req[s].result[i] : i \in DOMAIN req[s].result })
            \cup { req[s].existing[i] : i \in DOMAIN req[s].existing }
    /\ response' = About(ClockInCatch(ConnectionFailure), req[s].operator_id)
    /\ req' = [req EXCEPT ![s] = Idle]
    /\ UNCHANGED << operators, operators_seq, shifts, shifts_seq, shift_assignments,
                    shift_assignments_seq, attendance_logs_seq, now, tzOffset,
                    lastImport >>
ClockInStatusFails(s) ==
    /\ req[s].kind = "clock-in" /\ req[s].pc = "status"
    /\ response' = About(ClockInCatch(ConnectionFailure), req[s].operator_id)
    /\ req' = [req EXCEPT ![s] = Idle]
    /\ StoreUnchanged
    /\ UNCHANGED << now, tzOffset, lastImport >>

\* the UPDATE of operators of clock-out throws: the catch answers 500
ClockOutStatusFails(s) ==
    /\ req[s].kind = "clock-out" /\ req[s].pc = "status"
    /\ response' = About(InternalError("POST /api/attendance/clock-out",
                                       ConnectionFailure), req[s].operator_id)
    /\ req' = [req EXCEPT ![s] = Idle]
    /\ StoreUnchanged
    /\ UNCHANGED << now, tzOffset, lastImport >>

\* the server process stops while attendance requests are between two
\* statements: they get no answer, and the statements already executed stay
Crash ==
    /\ \E s \in Reqs : req[s].kind \in { "clock-in", "clock-out" }
    /\ req' = [s \in Reqs |-> Idle]
    /\ response' = NoResponse
    /\ StoreUnchanged
    /\ UNCHANGED << now, tzOffset, lastImport >>

\* an attendance row written outside the handlers with the defaults of the
\* schema: clock_in NULL, status 'absent' (the row clock-in updates in place)
SeedAbsent(operator_id) ==
    /\ attendance_logs_seq < MaxSeq
    /\ LET r == InsertAttendance(attendance_logs, attendance_logs_seq + 1,
                                 [operator_id |-> operator_id, date |-> UtcDate(now),
                                  clock_in |-> NULL, status |-> "absent",
                                  shift_id |-> NULL],
                                 operators, shifts)
       IN  /\ r.sqlstate = PgOk
           /\ attendance_logs' = r.table
    /\ attendance_logs_seq' = attendance_logs_seq + 1
    /\ UNCHANGED << operators, operators_seq, shifts, shifts_seq, shift_assignments,
                    shift_assignments_seq, now, tzOffset, req, lastImport >>
    /\ response' = NoResponse

\* time passes to a later instant
Tick ==
    /\ \E i \in DOMAIN Instants : Instants[i] > now /\ now' = Instants[i]
    /\ StoreUnchanged
    /\ UNCHANGED << tzOffset, req, lastImport >>
    /\ response' = NoResponse

\* time passes to a later instant of the same UTC day
TickToday ==
    /\ \E i \in DOMAIN Instants :
         Instants[i] > now /\ UtcDate(Instants[i]) = UtcDate(now) /\ now' = Instants[i]
    /\ StoreUnchanged
    /\ UNCHANGED << tzOffset, req, lastImport >>
    /\ response' = NoResponse

-----------------------------------------------------------------------------
(* CSV import *)

\* !name || !email
RowSkippedEmailOnly(row) == ~Truthy(row.email)
RowSkipped(row) == ~Truthy(row.name) \/ ~Truthy(row.email)

\* the parameters of the INSERT of a row, given the department found
RowValues(row, departmentId) ==
    [name |-> Trim(row.name), email |-> Trim(row.email),
     employee_id |-> OptTrim(row.employee_id), department_id |-> departmentId,
     skill_level |-> IF Truthy(OptTrim(row.skill_level))
                     THEN OptTrim(row.skill_level) ELSE s_beginner]

\* deptResult.rows.length > 0 ? deptResult.rows[0].id : null, for each row the
\* unordered SELECT may return first
DepartmentChoices(row) ==
    IF Truthy(row.department_name) /\ SelectDepartment(Trim(row.department_name)) # {}
    THEN SelectDepartment(Trim(row.department_name))
    ELSE { NULL }

\* POST /api/import/operators, to the end of the parsed stream
ImportStart(s, uploaded, file) ==
    /\ req[s].kind = "idle"
    /\ IF ~uploaded
       THEN /\ response' = Respond("POST /api/import/operators", 400,
                                   "No file uploaded", "", << >>)
            /\ req' = req
       ELSE /\ req' = [req EXCEPT ![s] =
                         [Idle EXCEPT !.kind = "import", !.pc = "row", !.file = file,
                                      !.idx = 1, !.startOps = operators]]
            /\ response' = NoResponse
    /\ StoreUnchanged
    /\ UNCHANGED << now, tzOffset, lastImport >>

\* catch (error) of a row: one message, and the loop goes on
ImportRowCatchAborts(q, row, sqlstate) ==
    [q EXCEPT !.idx = Len(q.file) + 1,
              !.errors = Append(@, [msg |-> "Error importing row: " \o sqlstate,
                                    row |-> row])]
ImportRowCatch(q, row, sqlstate) ==
    [q EXCEPT !.idx = @ + 1,
              !.errors = Append(@, [msg |-> "Error importing row: " \o sqlstate,
                                    row |-> row])]

\* one turn of for (const row of results)
ImportRow(s) ==
    /\ req[s].kind = "import" /\ req[s].pc = "row"
    /\ req[s].idx <= Len(req[s].file)
    /\ LET q == req[s]
           row == q.file[q.idx]
       IN  IF RowSkipped(row)
           THEN /\ req' = [req EXCEPT ![s].idx = q.idx + 1,
                             ![s].errors = Append(q.errors,
                                [msg |-> "Row skipped: Missing name or email",
                                 row |-> row])]
                /\ UNCHANGED << operators, operators_seq >>
           ELSE /\ operators_seq < MaxOperatorsSeq
                /\ \E departmentId \in DepartmentChoices(row) :
                     LET r == UpsertOperator(operators, operators_seq + 1,
                                             RowValues(row, departmentId), now)
                     IN  /\ operators' = r.table
                         /\ req' = IF r.sqlstate = PgOk
                                   THEN [req EXCEPT ![s].idx = q.idx + 1,
                                                    ![s].imported = q.imported + 1]
                                   ELSE [req EXCEPT ![s] =
                                           ImportRowCatch(q, row, r.sqlstate)]
                /\ operators_seq' = operators_seq + 1
    /\ UNCHANGED << shifts, shifts_seq, shift_assignments, shift_assignments_seq,
                    attendance_logs, attendance_logs_seq, now, tzOffset, lastImport >>
    /\ response' = NoResponse

\* after the loop: the response
ImportFinish(s) ==
    /\ req[s].kind = "import" /\ req[s].pc = "row"
    /\ req[s].idx > Len(req[s].file)
    /\ response' = Respond("POST /api/import/operators", 200, "", "",
                           << [imported |-> req[s].imported,
                               errors |-> [isNull |-> req[s].errors = << >>,
                                           list |-> req[s].errors]] >>)
    /\ req' = [req EXCEPT ![s] = Idle]
    /\ StoreUnchanged
    /\ UNCHANGED << now, tzOffset >>

\* the read stream emits 'error' (the uploaded file cannot be read or parsed):
\* the stream has no 'error' listener and the try/catch of the handler has
\* returned, so the error is uncaught and the request gets no answer, whether
\* the process exits or goes on
ImportStreamFails(s) ==
    /\ req[s].kind = "import" /\ req[s].pc = "row"
    /\ req[s].idx = 1
    /\ req' = [req EXCEPT ![s].pc = "unanswered"]
    /\ response' = NoResponse
    /\ StoreUnchanged
    /\ UNCHANGED << now, tzOffset, lastImport >>

\* fs.unlinkSync throws after the loop, inside the async 'end' callback: the
\* rejection is handled by nobody and res.json is never reached
ImportCleanupFails(s) ==
    /\ req[s].kind = "import" /\ req[s].pc = "row"
    /\ req[s].idx > Len(req[s].file)
    /\ req' = [req EXCEPT ![s].pc = "unanswered"]
    /\ response' = NoResponse
    /\ StoreUnchanged
    /\ UNCHANGED << now, tzOffset, lastImport >>

\* history: the import that ends in this step is remembered, with the operators
\* it found and the operators it leaves
RecordImport(s) ==
    lastImport' = [file |-> req[s].file, startOps |-> req[s].startOps,
                   endOps |-> operators, imported |-> req[s].imported,
                   errors |-> req[s].errors]

-----------------------------------------------------------------------------
(* Request inputs *)

s_Ann == << "A", "n", "n" >>
s_Bob == << "B", "o", "b" >>
s_ann_x == << "a", "@", "x" >>
s_bob_x == << "b", "@", "x" >>
s_E1 == << "E", "1" >>
s_E2 == << "E", "2" >>
s_expert == << "e", "x", "p", "e", "r", "t" >>
s_Day == << "D", "a", "y" >>

OperatorBody(name, email, employee_id, department_id, skill_level) ==
    [name |-> name, email |-> email, employee_id |-> employee_id,
     department_id |-> department_id, skill_level |-> skill_level]

\* the store after two POST /api/operators and one POST /api/shifts at the first
\* instant: the operators and the shift the attendance and assignment requests
\* are about
StaffedOperators ==
    InsertOperator(
        InsertOperator({}, 1, OperatorBody(s_Ann, s_ann_x, s_E1, 1, s_beginner),
                       Instants[1]).table,
        2, OperatorBody(s_Bob, s_bob_x, NoStr, 2, s_expert), Instants[1]).table

StaffedShifts ==
    { [id |-> 1, name |-> s_Day, start_time |-> 480, end_time |-> 960,
       department_id |-> 1, capacity |-> 1, is_active |-> TRUE] }

InitStaffed ==
    /\ operators = StaffedOperators
    /\ operators_seq = 2
    /\ shifts = StaffedShifts
    /\ shifts_seq = 1
    /\ shift_assignments = {}
    /\ shift_assignments_seq = 0
    /\ attendance_logs = {}
    /\ attendance_logs_seq = 0
    /\ now = Instants[1]
    /\ tzOffset \in TzOffsets
    /\ req = [s \in Reqs |-> Idle]
    /\ response = NoResponse
    /\ lastImport = NoImport

\* operator_id and shift_id of the attendance requests: the operators; the
\* shift, and no shift
ClockOperatorIds == { 1, 2 }
ClockShiftIds == { 1, NULL }

\* the slot of a server that is sent one request at a time
SerialReqs == { 1 }

\* attendance requests sent one after the other
NextAttendance ==
    \/ Tick
    \/ \E o \in ClockOperatorIds, sh \in ClockShiftIds :
         \E s \in SerialReqs : ClockInSelect(s, o, sh)
    \/ \E s \in SerialReqs : ClockInWrite(s)
    \/ \E s \in SerialReqs : ClockInStatus(s)
    \/ \E o \in ClockOperatorIds : \E s \in SerialReqs : ClockOutSelect(s, o)
    \/ \E s \in SerialReqs : ClockOutWrite(s)
    \/ \E s \in SerialReqs : ClockOutStatus(s)
    \/ \E o \in ClockOperatorIds : SeedAbsent(o)

SpecAttendance == InitStaffed /\ [][NextAttendance]_vars

\* the staffed store of a server that runs in UTC
InitStaffedUtc == InitStaffed /\ tzOffset = 0

\* the same requests, sent to a server that runs in UTC
SpecAttendanceUtc == InitStaffedUtc /\ [][NextAttendance]_vars

\* the operator concurrent attendance requests are about
RaceOperatorIds == { 1 }

\* concurrent attendance requests of one operator on one day, their statements
\* interleaved
NextRace ==
    \/ TickToday
    \/ \E s \in Reqs, o \in RaceOperatorIds, sh \in ClockShiftIds : ClockInSelect(s, o, sh)
    \/ \E s \in Reqs : ClockInWrite(s)
    \/ \E s \in Reqs : ClockInStatus(s)
    \/ \E s \in Reqs, o \in RaceOperatorIds : ClockOutSelect(s, o)
    \/ \E s \in Reqs : ClockOutWrite(s)
    \/ \E s \in Reqs : ClockOutStatus(s)
    \/ \E o \in RaceOperatorIds : SeedAbsent(o)

SpecRace == InitStaffed /\ [][NextRace]_vars

\* attendance requests of a server in UTC, one at a time, where the second
\* statement of a handler may fail and the process may stop
NextFailure ==
    \/ Tick
    \/ \E o \in ClockOperatorIds, sh \in ClockShiftIds :
         \E s \in SerialReqs : ClockInSelect(s, o, sh)
    \/ \E s \in SerialReqs : ClockInWrite(s)
    \/ \E s \in SerialReqs : ClockInStatus(s)
    \/ \E s \in SerialReqs : ClockInStatusFails(s)
    \/ \E o \in ClockOperatorIds : \E s \in SerialReqs : ClockOutSelect(s, o)
    \/ \E s \in SerialReqs : ClockOutWrite(s)
    \/ \E s \in SerialReqs : ClockOutStatus(s)
    \/ \E s \in SerialReqs : ClockOutStatusFails(s)
    \/ Crash

SpecFailure == InitStaffedUtc /\ [][NextFailure]_vars

\* the bodies of POST /api/shift-assignments: the shift and an id no shift has,
\* the operators, a station or none, the date left out (today) or given (day 1)
AssignBodies ==
    [shift_id : { 1, 2 }, operator_id : { 1, 2 }, station_id : { 1, NULL },
     assigned_date : { NULL, 1 }]
        \cup { [shift_id |-> NULL, operator_id |-> 1, station_id |-> 1,
                assigned_date |-> NULL] }

AssignmentIds == 1 .. MaxSeq
DeleteOperatorIds == { 1, 2, 3 }

\* assignments, clock-ins and deletions of the staffed store, one request at a
\* time
NextAssign ==
    \/ \E b \in AssignBodies : AssignOperator(b)
    \/ \E id \in AssignmentIds : RemoveAssignment(id)
    \/ \E id \in DeleteOperatorIds : DeleteOperator(id)
    \/ \E o \in RaceOperatorIds, sh \in ClockShiftIds :
         \E s \in SerialReqs : ClockInSelect(s, o, sh)
    \/ \E s \in SerialReqs : ClockInWrite(s)
    \/ \E s \in SerialReqs : ClockInStatus(s)

SpecAssign == InitStaffedUtc /\ [][NextAssign]_vars

s_An == << "A", "n" >>
s_Cy == << "C", "y" >>
s_cy_x == << "c", "@", "x" >>
s_production == << "p", "r", "o", "d", "u", "c", "t", "i", "o", "n" >>
s_None == << "N", "o", "n", "e" >>

CsvRow(name, email, employee_id, department_name, skill_level) ==
    [name |-> name, email |-> email, employee_id |-> employee_id,
     department_name |-> department_name, skill_level |-> skill_level]

\* the rows a CSV file is made of: a new operator with the employee_id Ann has
\* at first and no skill_level column; Ann's email with everything else changed
\* and a department that does not exist; a row without a name; a row without an
\* email; a row of blanks with a department pattern; Bob's row padded with
\* blanks, with a pattern for his department
CsvRows ==
    { CsvRow(s_Cy, s_cy_x, s_E1, s_production, NoStr),
      CsvRow(s_An, s_ann_x, s_E2, s_None, s_expert),
      CsvRow(<< >>, s_bob_x, NoStr, NoStr, NoStr),
      CsvRow(s_Bob, << >>, s_E1, s_Production, s_expert),
      CsvRow(<< " " >>, << " " >>, NoStr, << "%" >>, << " " >>),
      CsvRow(<< " " >> \o s_Bob \o << " " >>, s_bob_x \o << " " >>, NoStr,
             << "P", "r", "o", "%" >>, << >>) }

\* the files of at most MaxRows rows
CsvFiles == UNION { [1 .. n -> CsvRows] : n \in 0 .. MaxRows }

\* a file is imported into the staffed store, and then the same file again
NextImport ==
    \/ \E s \in SerialReqs : ImportStart(s, FALSE, << >>)
    \/ \E s \in SerialReqs :
         /\ req[s].kind = "idle"
         /\ \E f \in (IF lastImport = NoImport THEN CsvFiles ELSE { lastImport.file }) :
              ImportStart(s, TRUE, f)
    \/ \E s \in SerialReqs : ImportRow(s)
    \/ \E s \in SerialReqs : ImportFinish(s) /\ RecordImport(s)

\* the staffed store of a server in UTC after Ann clocked in at the first
\* instant, at the second instant
InitImport ==
    /\ operators = SetOperatorStatus(StaffedOperators, 1, "online", Instants[1])
    /\ operators_seq = 2
    /\ shifts = StaffedShifts
    /\ shifts_seq = 1
    /\ shift_assignments = {}
    /\ shift_assignments_seq = 0
    /\ attendance_logs =
         InsertAttendance({}, 1, [operator_id |-> 1, date |-> UtcDate(Instants[1]),
                                  clock_in |-> LocalTime(Instants[1], 0),
                                  status |-> "present", shift_id |-> NULL],
                          StaffedOperators, StaffedShifts).table
    /\ attendance_logs_seq = 1
    /\ now = Instants[2]
    /\ tzOffset = 0
    /\ req = [s \in Reqs |-> Idle]
    /\ response = NoResponse
    /\ lastImport = NoImport

SpecImport == InitImport /\ [][NextImport]_vars

\* the bodies of POST /api/operators: a new operator; Ann's email again; the
\* employee_id Ann has at first; no department; a department that does not exist
CreateBodies ==
    { OperatorBody(s_Cy, s_cy_x, NoStr, 1, NoStr),
      OperatorBody(s_An, s_ann_x, NoStr, 1, s_expert),
      OperatorBody(s_Cy, s_cy_x, s_E1, 2, s_expert),
      OperatorBody(s_Cy, s_cy_x, NoStr, NULL, NoStr),
      OperatorBody(s_Cy, s_cy_x, NoStr, 9, NoStr) }

NoFields ==
    [name |-> NoStr, email |-> NoStr, employee_id |-> NoStr, department_id |-> NULL,
     skill_level |-> NoStr, status |-> ""]

\* the bodies of PUT /api/operators/:id: Bob's email; a new email and a new
\* employee_id
PutBodies ==
    { [NoFields EXCEPT !.email = s_bob_x],
      [NoFields EXCEPT !.email = s_cy_x, !.employee_id = s_E2] }

PutOperatorIds == { 1, 2, 3 }

\* the files imported while operators are created and updated: a new operator;
\* Ann's row and Bob's row with one employee_id; the row of blanks twice
OperatorFiles ==
    { << CsvRow(s_Cy, s_cy_x, s_E1, s_production, NoStr) >>,
      << CsvRow(s_An, s_ann_x, s_E2, s_None, s_expert),
         CsvRow(<< " " >> \o s_Bob \o << " " >>, s_bob_x \o << " " >>, s_E2,
                << "P", "r", "o", "%" >>, << >>) >>,
      << CsvRow(<< " " >>, << " " >>, NoStr, << "%" >>, << " " >>),
         CsvRow(<< " " >>, << " " >>, NoStr, << "%" >>, << " " >>) >> }

\* operators are created and updated between the rows of imports
NextOperators ==
    \/ \E b \in CreateBodies : CreateOperator(b)
    \/ \E id \in PutOperatorIds, b \in PutBodies : PutOperator(id, b)
    \/ \E f \in OperatorFiles : \E s \in SerialReqs : ImportStart(s, TRUE, f)
    \/ \E s \in SerialReqs : ImportRow(s)
    \/ \E s \in SerialReqs : ImportFinish(s) /\ UNCHANGED lastImport

SpecOperators == InitStaffedUtc /\ [][NextOperators]_vars

\* a step of an import that was started: the stream fails or ends, the loop
\* takes a row, the cleanup fails or the response is sent
ImportStep(s) ==
    \/ ImportStreamFails(s)
    \/ ImportRow(s)
    \/ ImportCleanupFails(s)
    \/ ImportFinish(s) /\ UNCHANGED lastImport

\* imports sent one at a time; a file is taken only while the serial of
\* operators has ids for all of its rows
NextImportLive ==
    \/ \E s \in SerialReqs : ImportStart(s, FALSE, << >>)
    \/ \E s \in SerialReqs, f \in OperatorFiles :
         /\ operators_seq + Len(f) <= MaxOperatorsSeq
         /\ ImportStart(s, TRUE, f)
    \/ \E s \in SerialReqs : ImportStep(s)

\* the event loop runs every import that was started
SpecImportLive ==
    /\ InitStaffedUtc
    /\ [][NextImportLive]_vars
    /\ \A s \in SerialReqs : WF_vars(ImportStep(s))

\* operator_id of clock-in requests: Ann, none (the body has no operator_id),
\* and an id no operator has
ReferenceOperatorIds == { 1, NULL, 3 }

\* clock-ins and deletions of operators, one request at a time
NextReference ==
    \/ TickToday
    \/ \E o \in ReferenceOperatorIds, sh \in ClockShiftIds :
         \E s \in SerialReqs : ClockInSelect(s, o, sh)
    \/ \E s \in SerialReqs : ClockInWrite(s)
    \/ \E s \in SerialReqs : ClockInStatus(s)
    \/ \E id \in DeleteOperatorIds : DeleteOperator(id)

SpecReference == InitStaffedUtc /\ [][NextReference]_vars

\* the staffed store of a server in UTC after a second POST /api/shifts
InitTwoShifts ==
    /\ operators = StaffedOperators
    /\ operators_seq = 2
    /\ shifts = StaffedShifts
                  \cup { [id |-> 2, name |-> << "N", "i", "g", "h", "t" >>,
                          start_time |-> 960, end_time |-> 1440,
                          department_id |-> 1, capacity |-> 1, is_active |-> TRUE] }
    /\ shifts_seq = 2
    /\ shift_assignments = {}
    /\ shift_assignments_seq = 0
    /\ attendance_logs = {}
    /\ attendance_logs_seq = 0
    /\ now = Instants[1]
    /\ tzOffset = 0
    /\ req = [s \in Reqs |-> Idle]
    /\ response = NoResponse
    /\ lastImport = NoImport

\* the bodies of the assignments that are listed: either shift, either
\* operator, the first station or none, for today
ListingBodies ==
    [shift_id : { 1, 2 }, operator_id : { 1, 2 }, station_id : { 1, NULL },
     assigned_date : { NULL }]

\* assignments are made and removed, days pass, and the listing and the
\* dashboard are read
NextListing ==
    \/ Tick
    \/ \E b \in ListingBodies : AssignOperator(b)
    \/ \E id \in AssignmentIds : RemoveAssignment(id)
    \/ ListOperators
    \/ DashboardStats

SpecListing == InitTwoShifts /\ [][NextListing]_vars

\* the status values requests carry: a valid one, one that is not, and none
StatusValues == { "on_break", "away", "" }

\* the bodies of PUT /api/operators/:id that carry a status
StatusPutBodies ==
    { [NoFields EXCEPT !.status = st] : st \in StatusValues \ { "" } }

\* the operators of the requests about a status: Ann, and the id of the
\* operator that is created
StatusOperatorIds == { 1, 3 }

\* every operation that writes the status of an operator, one request at a
\* time: create, PUT, the status endpoint, clock-in, clock-out and import
NextStatus ==
    \/ CreateOperator(OperatorBody(s_Cy, s_cy_x, NoStr, 1, NoStr))
    \/ \E id \in StatusOperatorIds, b \in StatusPutBodies : PutOperator(id, b)
    \/ \E id \in StatusOperatorIds, st \in StatusValues : UpdateStatus(id, st)
    \/ \E o \in RaceOperatorIds, sh \in ClockShiftIds :
         \E s \in SerialReqs : ClockInSelect(s, o, sh)
    \/ \E s \in SerialReqs : ClockInWrite(s)
    \/ \E s \in SerialReqs : ClockInStatus(s)
    \/ \E o \in RaceOperatorIds : \E s \in SerialReqs : ClockOutSelect(s, o)
    \/ \E s \in SerialReqs : ClockOutWrite(s)
    \/ \E s \in SerialReqs : ClockOutStatus(s)
    \/ \E s \in SerialReqs :
         ImportStart(s, TRUE, << CsvRow(s_An, s_ann_x, s_E2, s_None, s_expert) >>)
    \/ \E s \in SerialReqs : ImportRow(s)
    \/ \E s \in SerialReqs : ImportFinish(s) /\ UNCHANGED lastImport

SpecStatus == InitStaffedUtc /\ [][NextStatus]_vars

\* the bodies of POST /api/shifts: a shift; a shift without a name; a shift of a
\* department that does not exist
ShiftBodies ==
    { [name |-> s_Day, start_time |-> 480, end_time |-> 960, department_id |-> 1,
       capacity |-> 1],
      [name |-> NoStr, start_time |-> 480, end_time |-> 960, department_id |-> 1,
       capacity |-> 1],
      [name |-> s_Day, start_time |-> 480, end_time |-> 960, department_id |-> 9,
       capacity |-> 1] }

\* the server: every request may arrive at any time, and the statements of the
\* requests that await the store interleave
Next ==
    \/ Tick
    \/ \E b \in CreateBodies : CreateOperator(b)
    \/ \E id \in PutOperatorIds, b \in PutBodies : PutOperator(id, b)
    \/ \E id \in PutOperatorIds, st \in StatusValues : UpdateStatus(id, st)
    \/ \E id \in DeleteOperatorIds : DeleteOperator(id)
    \/ \E b \in ShiftBodies : CreateShift(b)
    \/ \E b \in AssignBodies : AssignOperator(b)
    \/ \E id \in AssignmentIds : RemoveAssignment(id)
    \/ \E s \in Reqs, o \in ClockOperatorIds, sh \in ClockShiftIds : ClockInSelect(s, o, sh)
    \/ \E s \in Reqs : ClockInWrite(s)
    \/ \E s \in Reqs : ClockInStatus(s)
    \/ \E s \in Reqs, o \in ClockOperatorIds : ClockOutSelect(s, o)
    \/ \E s \in Reqs : ClockOutWrite(s)
    \/ \E s \in Reqs : ClockOutStatus(s)
    \/ \E s \in Reqs : ClockInStatusFails(s)
    \/ \E s \in Reqs : ClockOutStatusFails(s)
    \/ Crash
    \/ \E o \in ClockOperatorIds : SeedAbsent(o)
    \/ \E s \in Reqs, f \in CsvFiles : ImportStart(s, TRUE, f)
    \/ \E s \in Reqs : ImportStart(s, FALSE, << >>)
    \/ \E s \in Reqs : ImportRow(s)
    \/ \E s \in Reqs : ImportFinish(s) /\ RecordImport(s)
    \/ \E s \in Reqs : ImportStreamFails(s)
    \/ \E s \in Reqs : ImportCleanupFails(s)
    \/ ListOperators
    \/ DashboardStats

Spec == Init /\ [][Next]_vars

-----------------------------------------------------------------------------
(* Attendance: properties *)

\* the attendance rows of an operator on a date
LogsOf(logs, operator_id, date) ==
    { a \in logs : a.operator_id = operator_id /\ a.date = date }

\* C1: in every reachable state, whatever the interleaving of the statements of
\* concurrent clock-in and clock-out requests, no two attendance rows have the
\* same operator and the same date.
C1_OneAttendanceRowPerOperatorDay ==
    \A a, b \in attendance_logs :
        (a.operator_id # NULL /\ a.operator_id = b.operator_id /\ a.date = b.date)
            => a = b

\* two clock-in requests both found no row, and the second INSERT was refused
C1_Witness ==
    /\ response.route = "POST /api/attendance/clock-in"
    /\ response.sqlstate = UniqueViolation
    /\ Cardinality(LogsOf(attendance_logs, response.operator_id, UtcDate(now))) = 1

\* C2: a clock-in request that arrives when the row of (operator, today) has a
\* clock_in is answered 400 "Already clocked in today" and ends there: no
\* attendance row and no operator row is changed, before and after a clock-out.
C2_AlreadyClockedInChangesNothing ==
    [][ \A s \in Reqs, o \in ClockOperatorIds, sh \in ClockShiftIds :
          ( /\ \E a \in LogsOf(attendance_logs, o, UtcDate(now)) : a.clock_in # NULL
            /\ ClockInSelect(s, o, sh) )
          => /\ response'.route = "POST /api/attendance/clock-in"
             /\ response'.code = 400
             /\ response'.error = "Already clocked in today"
             /\ req'[s].kind = "idle"
             /\ attendance_logs' = attendance_logs
             /\ operators' = operators ]_vars

\* a clock-in was refused for an operator who had clocked in and out today
C2_Witness ==
    /\ response.route = "POST /api/attendance/clock-in"
    /\ response.code = 400
    /\ \E a \in LogsOf(attendance_logs, response.operator_id, UtcDate(now)) :
         a.clock_in # NULL /\ a.clock_out # NULL

\* C3: a clock-out request that arrives when no row of (operator, today) has a
\* clock_in and no clock_out is answered 400 "No active clock-in found for today"
\* and ends there: no attendance row and no operator row is changed.
C3_NoActiveClockInChangesNothing ==
    [][ \A s \in Reqs, o \in ClockOperatorIds :
          ( /\ ~\E a \in LogsOf(attendance_logs, o, UtcDate(now)) :
                  a.clock_in # NULL /\ a.clock_out = NULL
            /\ ClockOutSelect(s, o) )
          => /\ response'.route = "POST /api/attendance/clock-out"
             /\ response'.code = 400
             /\ response'.error = "No active clock-in found for today"
             /\ req'[s].kind = "idle"
             /\ attendance_logs' = attendance_logs
             /\ operators' = operators ]_vars

\* a clock-out was refused for an operator who had already clocked out today,
\* while another operator's row of today is a seeded absent record
C3_Witness ==
    /\ response.route = "POST /api/attendance/clock-out"
    /\ response.code = 400
    /\ \E a \in LogsOf(attendance_logs, response.operator_id, UtcDate(now)) :
         a.clock_out # NULL
    /\ \E a \in attendance_logs : a.date = UtcDate(now) /\ a.clock_in = NULL

\* C4: after a clock-in and a clock-out of an operator that both succeeded on one
\* date, (operator, date) has exactly one attendance row, its total_hours is not
\* negative and is (clock_out - clock_in) in hours rounded to two decimals.
C4_RoundTripHours ==
    (response.route = "POST /api/attendance/clock-out" /\ response.code = 200) =>
        LET rows == LogsOf(attendance_logs, response.operator_id, response.rows[1].date)
        IN  /\ Cardinality(rows) = 1
            /\ \A a \in rows :
                 /\ a.total_hours >= 0
                 /\ 2 * 60 * a.total_hours - 60
                        <= 2 * 100 * (a.clock_out - a.clock_in)
                 /\ 2 * 100 * (a.clock_out - a.clock_in)
                        < 2 * 60 * a.total_hours + 60

\* C5: when two clock-in requests of one operator both pass the existence check
\* and the second INSERT violates UNIQUE(operator_id, date), the loser is answered
\* with a conflict (already clocked in), not with the generic internal error.
C5_RaceLoserGetsConflict ==
    (response.route = "POST /api/attendance/clock-in" /\ response.sqlstate = UniqueViolation) =>
        (response.code # 500 /\ response.error # "Internal server error")

-----------------------------------------------------------------------------
(* Assignments and deletion: properties *)

\* the date an assignment request is for
AssignedDate(b) == IF b.assigned_date = NULL THEN UtcDate(now) ELSE b.assigned_date

\* the assignment rows of a (shift, operator, date)
AssignmentsOf(table, shift_id, operator_id, date) ==
    { a \in table : a.shift_id = shift_id /\ a.operator_id = operator_id
                      /\ a.assigned_date = date }

\* C6: no two assignment rows have the same (shift, operator, date); an
\* assignment request that succeeds on a key that has a row changes the
\* station_id of that row and nothing else, on a key without a row it adds one
\* row with a new id; a request that fails changes no row.
C6_AssignmentUpsert ==
    [][ /\ \A a, b \in shift_assignments' :
             (a.shift_id = b.shift_id /\ a.operator_id = b.operator_id
                /\ a.assigned_date = b.assigned_date) => a = b
        /\ \A b \in AssignBodies :
             AssignOperator(b) =>
               LET old == AssignmentsOf(shift_assignments, b.shift_id, b.operator_id,
                                        AssignedDate(b))
               IN  IF response'.code # 201
                   THEN shift_assignments' = shift_assignments
                   ELSE IF old # {}
                   THEN \E a \in old :
                          shift_assignments' =
                            (shift_assignments \ {a})
                              \cup {[a EXCEPT !.station_id = b.station_id]}
                   ELSE \E r \in shift_assignments' :
                          /\ shift_assignments' = shift_assignments \cup {r}
                          /\ \A a \in shift_assignments : a.id # r.id
                          /\ r.shift_id = b.shift_id /\ r.operator_id = b.operator_id
                          /\ r.assigned_date = AssignedDate(b)
                          /\ r.station_id = b.station_id ]_vars

\* an operator was assigned again for the same shift and date: the answer is the
\* old row, with the new station
C6_Witness ==
    /\ response.route = "POST /api/shift-assignments"
    /\ response.code = 201
    /\ response.rows[1].id < shift_assignments_seq
    /\ Cardinality(shift_assignments) = 1

\* C7: deleting an operator that exists succeeds, and afterwards no assignment
\* row and no attendance row refers to that operator.
C7_DeleteCascades ==
    [][ \A id \in DeleteOperatorIds :
          (DeleteOperator(id) /\ \E o \in operators : o.id = id)
          => /\ response'.code = 200
             /\ ~\E o \in operators' : o.id = id
             /\ ~\E a \in shift_assignments' : a.operator_id = id
             /\ ~\E a \in attendance_logs' : a.operator_id = id ]_vars

-----------------------------------------------------------------------------
(* Operators and import: properties *)

SkipMessage == "Row skipped: Missing name or email"

\* C8: no two operators have the same email, whatever operators are created,
\* updated and imported; a request to create an operator with the email of an
\* operator is answered 400 "Email or employee ID already exists", not 500, and
\* leaves the operators as they were.
C8_EmailUnique ==
    [][ /\ \A a, b \in operators' : a.email = b.email => a = b
        /\ \A b \in CreateBodies :
             ( /\ CreateOperator(b)
               /\ Truthy(b.name) /\ TruthyNum(b.department_id)
               /\ \E o \in operators : o.email = b.email )
             => /\ response'.code = 400
                /\ response'.error = "Email or employee ID already exists"
                /\ operators' = operators ]_vars

\* a create was refused by a unique index when no operator had the one
\* employee_id the bodies carry: its email was an operator's
C8_Witness ==
    /\ response.route = "POST /api/operators"
    /\ response.code = 400
    /\ response.sqlstate = UniqueViolation
    /\ ~\E o \in operators : o.employee_id = s_E1

\* text that is missing, empty or made of blanks
BlankText(t) == t = NoStr \/ \A i \in DOMAIN t : t[i] = " "

\* text that is missing or empty
NoText(t) == t = NoStr \/ t = << >>

LacksNameOrEmail(row) == NoText(row.name) \/ NoText(row.email)
IsSkipMessage(e) == e.msg = SkipMessage

SecondImportEnds(s) ==
    /\ ImportFinish(s)
    /\ lastImport # NoImport
    /\ req[s].file = lastImport.file
    /\ req[s].startOps = lastImport.endOps

MatchedDepartments(row) ==
    IF NoText(row.department_name) THEN {}
    ELSE { d \in departments : ILike(d.name, Trim(row.department_name)) }

\* the emails of the rows of a file whose department_name matches two
\* departments or more
AmbiguousEmails(file) ==
    { Trim(file[i].email) : i \in { k \in DOMAIN file :
                                      /\ ~NoText(file[k].email)
                                      /\ Cardinality(MatchedDepartments(file[k])) > 1 } }

\* the operators, without the department of those a row of the file gives one
\* of several departments
ApartFromAmbiguous(ops, file) ==
    { IF o.email \in AmbiguousEmails(file) THEN [o EXCEPT !.department_id = NULL] ELSE o
      : o \in ops }

-----------------------------------------------------------------------------
(* Import, row by row: properties *)

\* the employee_id of the row is held by an operator with another email
EmployeeIdTaken(ops, row) ==
    /\ row.employee_id # NoStr
    /\ \E o \in ops : o.employee_id = Trim(row.employee_id) /\ o.email # Trim(row.email)

\* C11: every turn of the import loop passes to the next row of the same file.
\* A turn either records one error message, of its row, after the messages of
\* the rows before it, and leaves the operators as they were, or records none,
\* counts the row as imported and leaves an operator with the row's name and
\* email.  A row without name or email, and a row whose employee_id an operator
\* with another email holds, are turns of the first kind.
C11_RowFailureIsolated ==
    [][ \A s \in Reqs :
          (req[s].kind = "import" /\ ImportRow(s)) =>
            LET q == req[s]
                row == q.file[q.idx]
            IN  /\ req'[s].kind = "import" /\ req'[s].pc = "row"
                /\ req'[s].file = q.file
                /\ req'[s].idx = q.idx + 1
                /\ \/ /\ Len(req'[s].errors) = Len(q.errors) + 1
                      /\ SubSeq(req'[s].errors, 1, Len(q.errors)) = q.errors
                      /\ req'[s].errors[Len(q.errors) + 1].row = row
                      /\ req'[s].imported = q.imported
                      /\ operators' = operators
                   \/ /\ req'[s].errors = q.errors
                      /\ req'[s].imported = q.imported + 1
                      /\ \E o \in operators' :
                           o.email = Trim(row.email) /\ o.name = Trim(row.name)
                /\ (LacksNameOrEmail(row) \/ EmployeeIdTaken(operators, row))
                     => (Len(req'[s].errors) = Len(q.errors) + 1) ]_vars

\* an import of three rows has ended whose second row the store rejected, and
\* whose first and third rows were imported
C11_Witness ==
    /\ lastImport # NoImport
    /\ Len(lastImport.file) = 3
    /\ lastImport.imported = 2
    /\ Len(lastImport.errors) = 1
    /\ lastImport.errors[1].row = lastImport.file[2]
    /\ ~IsSkipMessage(lastImport.errors[1])
    /\ lastImport.file[1] # lastImport.file[3]

\* C12: a turn of the import loop on a row whose name or email is missing,
\* empty or made of blanks leaves every operator as it was, records one skip
\* message, and passes to the next row.
C12_BlankRowSkipped ==
    [][ \A s \in Reqs :
          ( /\ req[s].kind = "import"
            /\ req[s].idx <= Len(req[s].file)
            /\ BlankText(req[s].file[req[s].idx].name)
                 \/ BlankText(req[s].file[req[s].idx].email)
            /\ ImportRow(s) )
          => /\ operators' = operators
             /\ Len(req'[s].errors) = Len(req[s].errors) + 1
             /\ IsSkipMessage(req'[s].errors[Len(req[s].errors) + 1])
             /\ req'[s].imported = req[s].imported
             /\ req'[s].idx = req[s].idx + 1 ]_vars

\* the operator a row gives: the columns of the INSERT of the row, with one of
\* the departments its department_name matches, or none
ImportedOver(o, row) ==
    { [o EXCEPT !.name = Trim(row.name),
                !.employee_id = IF row.employee_id = NoStr THEN NoStr
                                ELSE Trim(row.employee_id),
                !.department_id = d,
                !.skill_level = IF BlankText(row.skill_level) THEN s_beginner
                                ELSE Trim(row.skill_level)]
      : d \in IF MatchedDepartments(row) = {} THEN { NULL }
              ELSE { e.id : e \in MatchedDepartments(row) } }

\* the effect the upsert of a row has on the operators
UpsertEffect(row) ==
    LET hit == { o \in operators : o.email = Trim(row.email) }
    IN  IF hit # {}
        THEN \E o \in hit : \E n \in ImportedOver(o, row) :
               operators' = (operators \ {o}) \cup {n}
        ELSE \E n \in operators' :
               /\ n \notin operators
               /\ \A o \in operators : o.id # n.id
               /\ operators' = operators \cup {n}
               /\ n.email = Trim(row.email)

\* C13, as claimed: a turn of the import loop on a row with an email overwrites
\* name, employee_id, department_id and skill_level of the operator with that
\* email and changes nothing else, or inserts one operator when none has it.
C13_UpsertByEmail ==
    [][ \A s \in Reqs :
          ( /\ req[s].kind = "import"
            /\ req[s].idx <= Len(req[s].file)
            /\ ~NoText(req[s].file[req[s].idx].email)
            /\ ImportRow(s) )
          => UpsertEffect(req[s].file[req[s].idx]) ]_vars

\* C13, amended: a turn of the import loop on a row that has a name and an
\* email, and whose employee_id no operator with another email holds,
\* overwrites name, employee_id, department_id and skill_level of the operator
\* with that email and changes nothing else, or inserts one operator when none
\* has it.
C13_UpsertByEmailAccepted ==
    [][ \A s \in Reqs :
          ( /\ req[s].kind = "import"
            /\ req[s].idx <= Len(req[s].file)
            /\ ~LacksNameOrEmail(req[s].file[req[s].idx])
            /\ ~EmployeeIdTaken(operators, req[s].file[req[s].idx])
            /\ ImportRow(s) )
          => UpsertEffect(req[s].file[req[s].idx]) ]_vars

\* an import has renamed the operator who is online and left her online, with
\* the last_active she had, and has inserted an operator
C13_Witness ==
    /\ lastImport # NoImport
    /\ \E o \in lastImport.startOps, n \in lastImport.endOps :
         /\ n.id = o.id /\ n.name # o.name
         /\ n.status = "online" /\ n.last_active = o.last_active
         /\ n.last_active # now
    /\ Cardinality(lastImport.endOps) = Cardinality(lastImport.startOps) + 1

\* the id of the department whose name is the department_name of the row, up to
\* the case of its letters and the blanks around it; NULL when there is none
NamedDepartment(row) ==
    LET hit == IF row.department_name = NoStr THEN {}
               ELSE { d \in departments :
                        Lower(d.name) = Lower(Trim(row.department_name)) }
    IN  IF hit = {} THEN NULL ELSE (CHOOSE d \in hit : TRUE).id

\* C14: after a turn of the import loop on a row that is imported, the
\* department_id of the operator with the row's email is the id of the
\* department of that name, up to letter case, and NULL when no department has
\* that name; the turn records no error.
C14_DepartmentByName ==
    [][ \A s \in Reqs :
          ( /\ req[s].kind = "import"
            /\ req[s].idx <= Len(req[s].file)
            /\ ~LacksNameOrEmail(req[s].file[req[s].idx])
            /\ ~EmployeeIdTaken(operators, req[s].file[req[s].idx])
            /\ ImportRow(s) )
          => /\ req'[s].errors = req[s].errors
             /\ \A o \in operators' :
                  o.email = Trim(req[s].file[req[s].idx].email)
                    => o.department_id = NamedDepartment(req[s].file[req[s].idx]) ]_vars

-----------------------------------------------------------------------------
(* Attendance, write by write: properties *)

\* C15: the write of a clock-in of an operator whose row of today, unchanged
\* since the handler read it, has no clock_in sets clock_in, status 'present'
\* and shift_id of that row and adds no row; the write of a clock-in of an
\* operator without a row of today adds one row, with that clock_in, status
\* 'present' and the given shift_id.
C15_ClockInUpdatesOrInserts ==
    [][ \A s \in Reqs :
          ( /\ req[s].kind = "clock-in"
            /\ req[s].existing
                 = SelectAttendance(attendance_logs, req[s].operator_id, req[s].today)
            /\ ClockInWrite(s) )
          => LET q == req[s]
                 rows == LogsOf(attendance_logs, q.operator_id, q.today)
             IN  IF rows # {}
                 THEN \E a \in rows :
                        /\ a.clock_in = NULL
                        /\ attendance_logs' =
                             (attendance_logs \ {a})
                               \cup {[a EXCEPT !.clock_in = q.currentTime,
                                               !.status = "present",
                                               !.shift_id = q.shift_id]}
                 ELSE \E r \in attendance_logs' :
                        /\ \A a \in attendance_logs : a.id # r.id
                        /\ attendance_logs' = attendance_logs \cup {r}
                        /\ r.operator_id = q.operator_id /\ r.date = q.today
                        /\ r.clock_in = q.currentTime /\ r.clock_in # NULL
                        /\ r.clock_out = NULL
                        /\ r.status = "present" /\ r.shift_id = q.shift_id ]_vars

\* a clock-in with a shift has written the row that was seeded absent
C15_Witness ==
    \E s \in Reqs :
        /\ req[s].kind = "clock-in" /\ req[s].pc = "status"
        /\ req[s].existing # << >>
        /\ req[s].existing[1].clock_in = NULL /\ req[s].existing[1].status = "absent"
        /\ req[s].shift_id # NULL
        /\ req[s].result # << >>
        /\ req[s].result[1].id = req[s].existing[1].id
        /\ req[s].result[1].shift_id = req[s].shift_id
        /\ req[s].result[1] \in attendance_logs
        /\ Cardinality(attendance_logs) = 1

\* the step answers a request of the route: with 200, and then the operator it
\* names is there, has the status and the last_active of this instant, and the
\* other operators are as they were; or with an error, and then the operators
\* are as they were
AnswersWithStatus(route, status) ==
    response'.route = route =>
        IF response'.code = 200
        THEN /\ \E o \in operators' : o.id = response'.operator_id
             /\ \A o \in operators' :
                  IF o.id = response'.operator_id
                  THEN o.status = status /\ o.last_active = now'
                  ELSE o \in operators
             /\ { o.id : o \in operators' } = { o.id : o \in operators }
        ELSE operators' = operators

\* C16: when a clock-in is answered with success the operator is online and its
\* last_active is the time of the answer; when it is answered with an error no
\* operator has changed.
C16_ClockInSetsOnline ==
    [][ AnswersWithStatus("POST /api/attendance/clock-in", "online") ]_vars

\* a clock-in of the operator who was offline has succeeded at a later instant
C16_Witness ==
    /\ response.route = "POST /api/attendance/clock-in" /\ response.code = 200
    /\ now # Instants[1]
    /\ \E o \in operators :
         o.id = response.operator_id /\ o.status = "online" /\ o.last_active = now
    /\ \E o \in operators : o.status = "offline" /\ o.last_active = Instants[1]

\* C17: when a clock-out is answered with success the operator is offline and
\* its last_active is the time of the answer; when it is answered with an error
\* no operator has changed.
C17_ClockOutSetsOffline ==
    [][ AnswersWithStatus("POST /api/attendance/clock-out", "offline") ]_vars

\* a clock-out has succeeded at a later instant while the other operator is
\* online
C17_Witness ==
    /\ response.route = "POST /api/attendance/clock-out" /\ response.code = 200
    /\ now # Instants[1]
    /\ \E o \in operators :
         o.id = response.operator_id /\ o.status = "offline" /\ o.last_active = now
    /\ \E o \in operators : o.id # response.operator_id /\ o.status = "online"

\* the dates of the instants
Dates == { UtcDate(Instants[i]) : i \in DOMAIN Instants }

\* the state of the attendance record of an operator on a date
RecordState(logs, operator_id, date) ==
    LET rows == LogsOf(logs, operator_id, date)
    IN  IF rows = {} THEN "NoRecord"
        ELSE IF \E a \in rows : a.clock_in = NULL THEN "Absent"
        ELSE IF \E a \in rows : a.clock_out = NULL THEN "ClockedIn"
        ELSE "ClockedOut"

\* C18: with requests handled one at a time, the record of an operator on a
\* date changes state only from NoRecord or a row without clock_in to ClockedIn,
\* by the write of a clock-in for that date, and from ClockedIn to ClockedOut,
\* by the write of a clock-out for that date (and from NoRecord to a seeded row
\* without clock_in); the rows of a ClockedOut record never change; and a
\* clock-in is refused only when the record of the date of the request has a
\* clock_in, whatever the records of other dates.
C18_AttendanceStateMachine ==
    [][ \A o \in ClockOperatorIds :
          /\ attendance_logs' # attendance_logs => \A d \in Dates :
               LET a == RecordState(attendance_logs, o, d)
                   b == RecordState(attendance_logs', o, d)
               IN  /\ a # b =>
                        \/ /\ a \in { "NoRecord", "Absent" } /\ b = "ClockedIn"
                           /\ \E s \in Reqs :
                                /\ req[s].kind = "clock-in"
                                /\ req[s].operator_id = o /\ req[s].today = d
                                /\ ClockInWrite(s)
                        \/ /\ a = "ClockedIn" /\ b = "ClockedOut"
                           /\ \E s \in Reqs :
                                /\ req[s].kind = "clock-out"
                                /\ req[s].operator_id = o /\ req[s].today = d
                                /\ ClockOutWrite(s)
                        \/ /\ a = "NoRecord" /\ b = "Absent"
                           /\ SeedAbsent(o)
                   /\ a = "ClockedOut" =>
                        LogsOf(attendance_logs', o, d) = LogsOf(attendance_logs, o, d)
          /\ ( /\ response'.route = "POST /api/attendance/clock-in" /\ response'.code = 400
                /\ response'.operator_id = o )
               => RecordState(attendance_logs, o, UtcDate(now))
                    \in { "ClockedIn", "ClockedOut" } ]_vars

\* an operator clocked out on the first date and has clocked in on the second
C18_Witness ==
    \E o \in ClockOperatorIds : \E d, e \in Dates :
        /\ d < e
        /\ RecordState(attendance_logs, o, d) = "ClockedOut"
        /\ RecordState(attendance_logs, o, e) = "ClockedIn"
        /\ response.route = "POST /api/attendance/clock-in" /\ response.code = 200
        /\ response.operator_id = o

-----------------------------------------------------------------------------
(* Attendance, a handler that stops between its two writes: properties *)

\* C19: when a clock-in or a clock-out that has written its attendance row ends
\* without its 200 answer (the UPDATE of operators failed and the handler
\* answered 500, or the process stopped), the store keeps the attendance row
\* the handler wrote and the operators table is what it was before the
\* request's second statement: nothing is rolled back.
C19_StopBetweenWritesKeepsLog ==
    [][ \A s \in SerialReqs :
          ( /\ req[s].pc = "status"
            /\ req'[s].kind = "idle"
            /\ response'.code # 200 )
          => /\ \A i \in DOMAIN req[s].result : req[s].result[i] \in attendance_logs'
             /\ attendance_logs' = attendance_logs
             /\ operators' = operators
             /\ response' \in { NoResponse,
                                About(ClockInCatch(ConnectionFailure),
                                      req[s].operator_id),
                                About(InternalError("POST /api/attendance/clock-out", ConnectionFailure),
                                      req[s].operator_id) } ]_vars

\* a later request observes the state a stopped clock-in left: it is refused
\* with "Already clocked in today" for an operator whose record of today is
\* clocked in, while the operator is still 'offline' and no request is running
C19_Witness ==
    /\ \A s \in Reqs : req[s].kind = "idle"
    /\ response.route = "POST /api/attendance/clock-in" /\ response.code = 400
    /\ \E o \in operators :
         /\ response.operator_id = o.id
         /\ o.status = "offline"
         /\ RecordState(attendance_logs, o.id, UtcDate(now)) = "ClockedIn"

-----------------------------------------------------------------------------
(* Stations: properties *)

\* the assignment rows by which operators other than operator_id hold a station
\* on a date
HeldByOthers(table, station_id, date, operator_id) ==
    { a \in table : /\ a.station_id # NULL /\ a.station_id = station_id
                    /\ a.assigned_date = date /\ a.operator_id # operator_id }

\* C20: an assignment request that names a station other operators hold on
\* that date is answered as if the station were free: 201 when the shift, the
\* operator and the station exist, the error of the missing reference
\* otherwise, never a conflict; the rows of the other operators stay as they
\* were, so after a 201 the station is held on that date by the row answered
\* and by theirs.
C20_NoStationOccupancyCheck ==
    [][ \A b \in AssignBodies :
          LET others == HeldByOthers(shift_assignments, b.station_id, AssignedDate(b),
                                     b.operator_id)
          IN  ( /\ others # {}
                /\ TruthyNum(b.shift_id) /\ TruthyNum(b.operator_id)
                /\ AssignOperator(b) )
              => /\ others \subseteq shift_assignments'
                 /\ response'.code \in { 201, 500 }
                 /\ response'.code = 201 <=>
                      /\ \E s \in shifts : s.id = b.shift_id
                      /\ \E o \in operators : o.id = b.operator_id
                 /\ response'.code = 500 => response'.sqlstate = FkViolation
                 /\ response'.code = 201 =>
                      /\ response'.rows[1] \in shift_assignments'
                      /\ response'.rows[1].station_id = b.station_id
                      /\ response'.rows[1].assigned_date = AssignedDate(b)
                      /\ response'.rows[1].operator_id = b.operator_id ]_vars

\* an assignment was answered 201 and another operator holds the station of
\* the answered row on its date
C20_Witness ==
    /\ response.route = "POST /api/shift-assignments"
    /\ response.code = 201
    /\ response.rows[1] \in shift_assignments
    /\ HeldByOthers(shift_assignments, response.rows[1].station_id,
                    response.rows[1].assigned_date,
                    response.rows[1].operator_id) # {}

-----------------------------------------------------------------------------
(* Capacity of a shift: properties *)

\* the operators assigned to a shift on a date
AssignedTo(table, shift_id, date) ==
    { a.operator_id : a \in { r \in table : r.shift_id = shift_id
                                              /\ r.assigned_date = date } }

\* C21: an assignment request for an operator and a shift that exist, of an
\* operator not yet assigned to that shift on that date, is answered 201 and
\* adds the operator when the operators already assigned to the shift on that
\* date are as many as its capacity or more: afterwards they are more than the
\* capacity.
C21_NoCapacityCheck ==
    [][ \A b \in AssignBodies :
          LET before == AssignedTo(shift_assignments, b.shift_id, AssignedDate(b))
              after == AssignedTo(shift_assignments', b.shift_id, AssignedDate(b))
          IN  ( /\ \E s \in shifts : s.id = b.shift_id
                                       /\ Cardinality(before) >= s.capacity
                /\ \E o \in operators : o.id = b.operator_id
                /\ b.operator_id \notin before
                /\ AssignOperator(b) )
              => /\ response'.code = 201
                 /\ after = before \cup { b.operator_id }
                 /\ \A s \in shifts : s.id = b.shift_id =>
                      Cardinality(after) > s.capacity ]_vars

\* an assignment was answered 201 and the shift of the answered row has, on the
\* date of that row, more operators than its capacity
C21_Witness ==
    /\ response.route = "POST /api/shift-assignments"
    /\ response.code = 201
    /\ \E s \in shifts :
         /\ s.id = response.rows[1].shift_id
         /\ Cardinality(AssignedTo(shift_assignments, s.id,
                                   response.rows[1].assigned_date)) > s.capacity

-----------------------------------------------------------------------------
(* Removing an assignment: properties *)

\* C22: a removal of an id that a row has is answered 200 with that row, and
\* the table afterwards is the table without that one row; a removal of an id
\* no row has is answered 404 and the table is unchanged; either way nothing
\* else of the store changes and no row has the id afterwards. No step gives a
\* new row an id that was handed out before, so a removal repeated with the
\* same id is answered 404.
C22_RemoveByPrimaryKey ==
    [][ /\ \A id \in AssignmentIds :
             RemoveAssignment(id) =>
               LET hit == { a \in shift_assignments : a.id = id }
               IN  /\ Cardinality(hit) <= 1
                   /\ shift_assignments' = shift_assignments \ hit
                   /\ ~\E a \in shift_assignments' : a.id = id
                   /\ IF hit = {}
                      THEN /\ response'.code = 404
                           /\ response'.error = "Assignment not found"
                      ELSE /\ response'.code = 200
                           /\ response'.rows[1] \in hit
                   /\ UNCHANGED << operators, shifts, attendance_logs,
                                   shift_assignments_seq >>
        /\ \A a \in shift_assignments' \ shift_assignments :
             \/ a.id > shift_assignments_seq
             \/ \E old \in shift_assignments : old.id = a.id ]_vars

\* a removal was answered with the row it deleted, and another row stays
C22_Witness ==
    /\ response.route = "DELETE /api/shift-assignments/:id"
    /\ response.code = 200
    /\ response.rows[1] \notin shift_assignments
    /\ \E a \in shift_assignments : a.id # response.rows[1].id

-----------------------------------------------------------------------------
(* Status of an operator: properties *)

\* C23: every operator's status is one of online, offline, on_break.
C23_StatusEnum == \A o \in operators : o.status \in ValidStatuses

\* what the caller sees of an answer: the code and the error text
Visible(r) == << r.code, r.error >>

\* C24: a PUT whose UPDATE is rejected by a unique constraint (the email or the
\* employee_id is held by another operator) leaves the operators unchanged and
\* is answered with a conflict the caller can tell from the answer to an
\* internal failure.
C24_PutConflict ==
    [][ ( /\ response'.route = "PUT /api/operators/:id"
          /\ response'.sqlstate = UniqueViolation )
        => /\ operators' = operators
           /\ Visible(response') # Visible(InternalError("PUT /api/operators/:id", "")) ]_vars

-----------------------------------------------------------------------------
(* Import, the answer: properties *)

\* C25: every import that was started is answered: the request ends with a
\* response.
C25_ImportAnswered ==
    \A s \in SerialReqs : (req[s].kind = "import") ~> (req[s].kind = "idle")

-----------------------------------------------------------------------------
(* Attendance, concurrent requests of one operator: properties *)

\* C26: a clock_out that was written is never written again: no clock-out
\* writes to a row that has a clock_out, so of the clock-outs of an operator on
\* a day only one is answered 200, and the clock_out and total_hours of a row
\* stay what the first write made them.
C26_ClockOutOnce ==
    [][ /\ \A s \in Reqs :
             ( /\ req[s].kind = "clock-out" /\ req[s].pc = "write"
               /\ req'[s].pc = "status" )
             => \A a \in attendance_logs :
                  (a.operator_id = req[s].operator_id /\ a.date = req[s].today)
                  => a.clock_out = NULL
        /\ \A a \in attendance_logs :
             a.clock_out # NULL =>
               \E b \in attendance_logs' :
                 /\ b.id = a.id /\ b.clock_out = a.clock_out
                 /\ b.total_hours = a.total_hours ]_vars

\* C27: a clock_in that was written is never written again: no clock-in writes
\* to a row that has a clock_in, and the clock_in and shift_id of such a row
\* stay what the first write made them.
C27_ClockInOnce ==
    [][ /\ \A s \in Reqs :
             ( /\ req[s].kind = "clock-in" /\ req[s].pc = "write"
               /\ req'[s].pc = "status" )
             => \A a \in attendance_logs :
                  (a.operator_id = req[s].operator_id /\ a.date = req[s].today)
                  => a.clock_in = NULL
        /\ \A a \in attendance_logs :
             a.clock_in # NULL =>
               \E b \in attendance_logs' :
                 /\ b.id = a.id /\ b.clock_in = a.clock_in
                 /\ b.shift_id = a.shift_id ]_vars

-----------------------------------------------------------------------------
(* Attendance rows and their operator: properties *)

\* C28: every attendance row has an operator_id, and an operator has that id.
C28_AttendanceRefersToOperator ==
    \A a \in attendance_logs :
      a.operator_id # NULL /\ \E o \in operators : o.id = a.operator_id

-----------------------------------------------------------------------------
(* Listing and dashboard: properties *)

\* C29: the listing has each operator exactly once: one row, one time.
C29_ListedOnce ==
    response.route = "GET /api/operators" =>
      \A o \in operators :
        \E r \in DOMAIN response.rows :
          /\ r.operator = o
          /\ response.rows[r] = 1
          /\ \A q \in DOMAIN response.rows : q.operator = o => q = r

\* the stations of a line that have an assignment on a date
OccupiedStations(line_id, assignments, date) ==
    { s \in stations :
        /\ s.line_id = line_id
        /\ \E a \in assignments : a.station_id = s.id /\ a.assigned_date = date }

\* C30: in the dashboard, total_stations of a line is the number of its
\* stations and occupied_stations the number of its stations that have an
\* assignment today, so occupied_stations is at most total_stations.
C30_LineCounts ==
    response.route = "GET /api/dashboard/stats" =>
      \A l \in response.rows :
        /\ l.total_stations = Cardinality({ s \in stations : s.line_id = l.id })
        /\ l.occupied_stations =
             Cardinality(OccupiedStations(l.id, shift_assignments, UtcDate(now)))
        /\ l.occupied_stations <= l.total_stations
====
